---- MODULE Spec2Model ----
(***************************************************************************)
(* SCPI command channel of PPST-Inc/Python_Examples.                       *)
(*                                                                         *)
(* SocketConnection (python_scpi_command_example.py and                    *)
(* python_basic_configuration_example.py, identical class bodies) and      *)
(* VISAConnection (python_scpi_command_by_visa_example.py), driven by an   *)
(* arbitrary caller (Spec) and by the main() of each of the three scripts  *)
(* (MainSpec), over a transport that may refuse to open, fail a write,     *)
(* deliver a reply in fragments, deliver it late, stay silent, or close    *)
(* the stream.                                                             *)
(***************************************************************************)
EXTENDS Integers, Sequences, FiniteSets, TLC

\* ------------------------------------------------------------------ bounds
MaxOps == 3        \* method calls made by the caller in one behaviour
MaxHandles == 2    \* sockets / VISA sessions one behaviour may create
RecvSize == 2      \* recv(65535), scaled: bytes one recv can return
MaxLines == 2      \* lines the user enters at the SCPI> prompt in one behaviour

\* self.socket = None / self.instrument = None
None == 0

Handles == 1..MaxHandles

\* --------------------------------------------------------- text and bytes
\* Characters of commands and replies: a letter, the line feed, the carriage
\* return, the space.
Chars == {"c", "LF", "CR", "SP"}

\* The printable ASCII characters in code order, from the space (32) to the
\* tilde (126); the space, the double quote, the backslash and the backtick
\* are written by name.
Ascii ==
    <<"SP", "!", "QUOTE", "#", "$", "%", "&", "'", "(", ")", "*", "+", ",", "-", ".", "/",
      "0", "1", "2", "3", "4", "5", "6", "7", "8", "9", ":", ";", "<", "=", ">", "?",
      "@", "A", "B", "C", "D", "E", "F", "G", "H", "I", "J", "K", "L", "M", "N", "O",
      "P", "Q", "R", "S", "T", "U", "V", "W", "X", "Y", "Z", "[", "BACKSLASH", "]", "^", "_",
      "BACKTICK", "a", "b", "c", "d", "e", "f", "g", "h", "i", "j", "k", "l", "m", "n", "o",
      "p", "q", "r", "s", "t", "u", "v", "w", "x", "y", "z", "{", "|", "}", "~">>

\* str.encode(): the UTF-8 code of each character.
Ord(ch) ==
    CASE ch = "LF" -> 10
      [] ch = "CR" -> 13
      [] OTHER -> 31 + (CHOOSE i \in DOMAIN Ascii : Ascii[i] = ch)

Encode(s) == [i \in DOMAIN s |-> Ord(s[i])]

\* bytes.decode(): raises UnicodeDecodeError on a byte that is not UTF-8.
Decodable(bs) == \A i \in DOMAIN bs : bs[i] < 128

Chr(b) ==
    CASE b = 10 -> "LF"
      [] b = 13 -> "CR"
      [] OTHER -> Ascii[b - 31]

Decode(bs) == [i \in DOMAIN bs |-> Chr(bs[i])]

\* str.strip(): whitespace removed from both ends, nothing else touched.
IsSpace(ch) == ch \in {"LF", "CR", "SP"}

RECURSIVE LStrip(_)
LStrip(s) ==
    IF s = <<>> THEN s
    ELSE IF IsSpace(Head(s)) THEN LStrip(Tail(s)) ELSE s

RECURSIVE RStrip(_)
RStrip(s) ==
    IF s = <<>> THEN s
    ELSE IF IsSpace(s[Len(s)]) THEN RStrip(SubSeq(s, 1, Len(s) - 1)) ELSE s

Strip(s) == RStrip(LStrip(s))

\* command.endswith('\n')
EndsWithLF(s) == s # <<>> /\ s[Len(s)] = "LF"

\* if not command.endswith('\n'): command += '\n'
Terminated(command) ==
    IF EndsWithLF(command) THEN command ELSE command \o <<"LF">>

\* instrument.write(command): the VISA message-based write appends its write
\* termination (CR LF) to the message, whatever the message ends with.
VisaTerminated(command) == command \o <<"CR", "LF">>

\* The commands a caller may pass: the empty text, a line without and with its
\* line feed, a line with two line feeds, two lines in one text.
Commands ==
    {<<>>, <<"c">>, <<"c", "LF">>, <<"c", "LF", "LF">>, <<"c", "LF", "c">>}

\* What the instrument may answer to one write: nothing, or one line (a value,
\* a value after a space, a byte that is no valid UTF-8, a longer value).
Replies ==
    {<<>>, <<99, 10>>, <<32, 99, 10>>, <<255, 10>>, <<99, 99, 10>>}

\* What the instrument may answer to the write of a command. A command of
\* Commands stands for any message: any reply may follow it. A SCPI text is
\* answered only when it asks something (it holds a question mark).
Answers(command) ==
    IF command \in Commands \/ \E i \in DOMAIN command : command[i] = "?"
    THEN Replies
    ELSE {<<>>}

Min(a, b) == IF a < b THEN a ELSE b

\* ------------------------------------------------------------------ state
VARIABLES
    variant,      \* "socket": SocketConnection, "visa": VISAConnection
    socket,       \* self.socket: None or a handle
    instrument,   \* self.instrument: None or a handle
    rm,           \* self.rm: "None", "open" or "closed"
    hstate,       \* per handle: "unborn", "open" (created, not connected),
                  \* "connected", "closed"
    rxbuf,        \* bytes received from the instrument, not yet read
    inflight,     \* bytes the instrument sent that have not arrived yet
    peerClosed,   \* the instrument closed the stream
    last,         \* the last method call: arguments, state before, outcome
    nops,         \* number of method calls so far
    returned,     \* history: the replies some query has returned bytes of
    prev,         \* history: what the call before the last one was and gave
    wire,         \* history: the transport calls made, in order, each with the
                  \* number of the method call that made it
    program,      \* "api": any caller; else the script whose main() runs
    pc,           \* position in main()
    step,         \* basic_configuration: next statement; scpi_command: lines read
    line          \* scpi_command: the line input() returned last

vars == <<variant, socket, instrument, rm, hstate, rxbuf, inflight, peerClosed,
          last, nops, returned, prev, wire, program, pc, step, line>>

\* What belongs to the caller, not to the connection object.
caller == <<variant, program, pc, step, line>>

stream == <<rxbuf, inflight, peerClosed>>

\* The transport handle the Channel holds.
Held == IF variant = "socket" THEN socket ELSE instrument

Born == {h \in Handles : hstate[h] # "unborn"}
OpenHandles == {h \in Handles : hstate[h] \in {"open", "connected"}}

\* socket.socket() / rm.open_resource(): the next fresh handle.
NewHandle == Cardinality(Born) + 1

\* The Channel state of the specification, read off the fields.
StateOf(h, hs) ==
    IF h = None THEN "Disconnected"
    ELSE CASE hs[h] = "connected" -> "Connected"
           [] hs[h] = "closed" -> "Closed"
           [] OTHER -> "Disconnected"

ChanState == StateOf(Held, hstate)

\* Return values.
RetNone == [kind |-> "None", text |-> <<>>]
RetTrue == [kind |-> "True", text |-> <<>>]
RetFalse == [kind |-> "False", text |-> <<>>]
RetText(t) == [kind |-> "text", text |-> t]

\* Why a send_command or query did not succeed, in the specification's terms.
Cause(pre, err) ==
    CASE err = "none" -> "ok"
      [] pre # "Connected" -> "NotConnected"
      [] err = "WriteError" -> "WriteFailed"
      [] err = "Timeout" -> "ReadTimeout"
      [] err = "UnicodeDecodeError" -> "DecodeFailed"
      [] OTHER -> err

Outcome(op, command, r, raised, printed, err, io, tx) ==
    [op |-> op, command |-> command, pre |-> ChanState, preHeld |-> Held,
     ret |-> r, raised |-> raised, printed |-> printed, err |-> err,
     io |-> io, tx |-> tx, rx |-> <<>>, from |-> {}, again |-> {}]

\* What a caller can tell of a call once it is over.
Summary(o) ==
    [op |-> o.op, pre |-> o.pre, cause |-> Cause(o.pre, o.err), ret |-> o.ret,
     raised |-> o.raised]

Record(o) ==
    /\ last' = o
    /\ nops' = nops + 1
    /\ prev' = Summary(last)
    /\ wire' = wire \o [i \in DOMAIN o.io |-> [ev |-> o.io[i], call |-> nops + 1]]

\* Faulty variant: __init__ that binds self.socket to a socket object at once.
InitSocketEager == CHOOSE h \in Handles : \A g \in Handles : h <= g

\* __init__: self.socket = None
InitSocket == None

\* A connection object just constructed, nothing called on it yet.
Fresh ==
    /\ socket = InitSocket
    /\ instrument = None
    /\ rm = "None"
    /\ hstate = [h \in Handles |-> "unborn"]
    /\ rxbuf = <<>>
    /\ inflight = <<>>
    /\ peerClosed = FALSE
    /\ last = [op |-> "none", command |-> <<>>, pre |-> "Disconnected",
               preHeld |-> None, ret |-> RetNone, raised |-> FALSE,
               printed |-> "", err |-> "none", io |-> <<>>, tx |-> <<>>,
               rx |-> <<>>, from |-> {}, again |-> {}]
    /\ nops = 0
    /\ returned = {}
    /\ prev = [op |-> "none", pre |-> "Disconnected", cause |-> "ok",
               ret |-> RetNone, raised |-> FALSE]
    /\ wire = <<>>
    /\ step = 0
    /\ line = <<>>

Init ==
    /\ variant \in {"socket", "visa"}
    /\ program = "api"
    /\ pc = "api"
    /\ Fresh

\* An object that lost its last reference is finalized by the runtime, at once
\* or at a later collection: its handle is closed then.
Finalized(hs, old, now) ==
    IF old # None /\ now /\ hs[old] \in {"open", "connected"}
    THEN [hs EXCEPT ![old] = "closed"]
    ELSE hs

\* ---------------------------------------------------------- SocketConnection
\* connect(): socket.socket() may raise (self.socket keeps its old value);
\* otherwise self.socket is rebound to the new socket before connect() is
\* tried, and stays bound to it when connect() raises.
SocketConnectCall ==
    /\ \E created \in BOOLEAN, reached \in BOOLEAN, now \in BOOLEAN :
         IF ~created
         THEN /\ UNCHANGED <<socket, hstate, stream>>
              /\ Record(Outcome("connect", <<>>, RetFalse, FALSE,
                                "Connection error", "ConnectError", <<>>, <<>>))
         ELSE /\ NewHandle \in Handles
              /\ socket' = NewHandle
              /\ hstate' = Finalized(
                     [hstate EXCEPT ![NewHandle] =
                         IF reached THEN "connected" ELSE "open"],
                     socket, now)
              /\ rxbuf' = <<>>
              /\ inflight' = <<>>
              /\ peerClosed' = FALSE
              /\ Record(IF reached
                        THEN Outcome("connect", <<>>, RetTrue, FALSE,
                                     "Connected", "none", <<>>, <<>>)
                        ELSE Outcome("connect", <<>>, RetFalse, FALSE,
                                     "Connection error", "ConnectError", <<>>, <<>>))
    /\ UNCHANGED <<instrument, rm, returned>>

\* self.socket.sendall(...) / self.instrument.write(...): on None the attribute
\* lookup raises; on a handle that is not connected the transport raises at
\* once; on a connected handle the write goes out whole or raises.
Sendall(s, hs, wok) ==
    IF s = None THEN "AttributeError"
    ELSE IF hs[s] # "connected" THEN "WriteError"
    ELSE IF wok THEN "ok" ELSE "WriteError"

\* The transport calls a write makes.
WriteIO(w) ==
    CASE w = "ok" -> <<"write">>
      [] w = "AttributeError" -> <<>>
      [] OTHER -> <<"write_err">>

\* Faulty variant: the read is issued whatever the write did.
ReadsAfterAlways(w) == TRUE

\* Inside the try block the statements after the write run only when the
\* write did not raise.
ReadsAfter(w) == w = "ok"

\* Faulty variant: the handler closes the handle on an error.
ExceptHandlerCloses(hs, h) == IF h = None THEN hs ELSE [hs EXCEPT ![h] = "closed"]

\* Faulty variant: the handler reopens the connection on an error.
ExceptHandlerReconnects(hs, h) == IF h = None THEN hs ELSE [hs EXCEPT ![h] = "connected"]

\* except Exception as e: print(...): the handle is left as it is.
ExceptHandler(hs, h) == hs

\* The instrument's answer to a write that went out, tagged with the call that
\* caused it.
Tag(bs, q) == [i \in DOMAIN bs |-> [b |-> bs[i], q |-> q]]
Untag(ts) == [i \in DOMAIN ts |-> ts[i].b]
Answered(w, reply, q) ==
    IF w = "ok" /\ ~peerClosed THEN inflight \o Tag(reply, q) ELSE inflight

\* self.socket.recv(65535) under the socket timeout: whatever has arrived, up
\* to the size given; the empty bytes object when the peer closed; a timeout
\* when nothing arrives in time.
Recv(s, hs, buf, rest, eof) ==
    IF s = None \/ hs[s] # "connected"
    THEN [res |-> "ReadError", data |-> <<>>, left |-> buf, closed |-> FALSE]
    ELSE IF buf = <<>>
    THEN IF peerClosed \/ (eof /\ rest = <<>>)
         THEN [res |-> "data", data |-> <<>>, left |-> buf, closed |-> TRUE]
         ELSE [res |-> "Timeout", data |-> <<>>, left |-> buf, closed |-> FALSE]
    ELSE LET n == Min(RecvSize, Len(buf))
         IN  [res |-> "data", data |-> SubSeq(buf, 1, n),
              left |-> SubSeq(buf, n + 1, Len(buf)), closed |-> FALSE]

\* Faulty variant: the read is issued before the write.
QueryIOReadFirst(wio, rd) == <<rd>> \o wio

\* self.socket.sendall(...) and only then self.socket.recv(...): the transport
\* calls of a query whose write went out, in the order they are made.
QueryIO(wio, rd) == wio \o <<rd>>

\* Faulty variant: only the end of the response is stripped.
ResponseTextRStrip(bs) == RStrip(Decode(bs))

\* response = ....decode().strip()
ResponseText(bs) == Strip(Decode(bs))

\* The part of query() after the write: read, decode, strip, return; any
\* exception is printed and None is returned.
AfterRead(command, wio, wtx, r, rest) ==
    /\ rxbuf' = r.left
    /\ inflight' = rest
    /\ peerClosed' = (peerClosed \/ r.closed)
    /\ IF r.res = "data" /\ Decodable(Untag(r.data))
       THEN /\ returned' = returned \cup {r.data[i].q : i \in DOMAIN r.data}
            /\ UNCHANGED hstate
            /\ Record([Outcome("query", command,
                               RetText(ResponseText(Untag(r.data))), FALSE,
                               "Response", "none", QueryIO(wio, "read"), wtx)
                       EXCEPT !.rx = Untag(r.data),
                              !.from = {r.data[i].q : i \in DOMAIN r.data},
                              !.again = {r.data[i].q : i \in DOMAIN r.data}
                                            \cap returned])
       ELSE /\ UNCHANGED returned
            /\ hstate' = ExceptHandler(hstate, Held)
            /\ Record([Outcome("query", command, RetNone, FALSE, "Query error",
                               IF r.res = "data" THEN "UnicodeDecodeError" ELSE r.res,
                               QueryIO(wio, IF r.res = "data" THEN "read" ELSE "read_err"),
                               wtx)
                       EXCEPT !.rx = Untag(r.data)])

\* send_command(command)
SocketSendCall(command) ==
    /\ \E wok \in BOOLEAN, reply \in Answers(command) :
         LET w == Sendall(socket, hstate, wok)
         IN  /\ inflight' = Answered(w, reply, nops + 1)
             /\ hstate' = IF w = "ok" THEN hstate ELSE ExceptHandler(hstate, socket)
             /\ Record(IF w = "ok"
                       THEN Outcome("send_command", command, RetNone, FALSE, "Sent",
                                    "none", WriteIO(w), Encode(Terminated(command)))
                       ELSE Outcome("send_command", command, RetNone, FALSE,
                                    "Error sending command", w, WriteIO(w), <<>>))
    /\ UNCHANGED <<socket, instrument, rm, rxbuf, peerClosed, returned>>

\* query(command)
SocketQueryCall(command) ==
    /\ \E wok \in BOOLEAN, reply \in Answers(command), eof \in BOOLEAN :
         LET w == Sendall(socket, hstate, wok)
             sent == Answered(w, reply, nops + 1)
             wtx == IF w = "ok" THEN Encode(Terminated(command)) ELSE <<>>
         IN  IF ~ReadsAfter(w)
             THEN /\ inflight' = sent
                  /\ hstate' = ExceptHandler(hstate, socket)
                  /\ UNCHANGED <<rxbuf, peerClosed, returned>>
                  /\ Record(Outcome("query", command, RetNone, FALSE, "Query error",
                                    w, WriteIO(w), wtx))
             ELSE \E k \in 0..Len(sent) :
                      AfterRead(command, WriteIO(w), wtx,
                                Recv(socket, hstate, rxbuf \o SubSeq(sent, 1, k),
                                     SubSeq(sent, k + 1, Len(sent)), eof),
                                SubSeq(sent, k + 1, Len(sent)))
    /\ UNCHANGED <<socket, instrument, rm>>

\* Faulty variant: disconnect() without its guard.
TruthyAlways(x) == TRUE

\* if self.socket: / if self.instrument: / if self.rm:
Truthy(x) == x # None

\* Faulty variant: disconnect() that forgets to close the handle.
CloseNothing(hs, h) == hs

\* socket.close() / instrument.close(): never raises, also on a closed handle.
Close(hs, h) == [hs EXCEPT ![h] = "closed"]

\* disconnect()
SocketDisconnectCall ==
    /\ IF Truthy(socket)
       THEN IF socket = None
            THEN /\ UNCHANGED <<hstate, stream>>
                 /\ Record(Outcome("disconnect", <<>>, RetNone, TRUE, "",
                                   "AttributeError", <<>>, <<>>))
            ELSE /\ hstate' = Close(hstate, socket)
                 /\ rxbuf' = <<>>
                 /\ inflight' = <<>>
                 /\ peerClosed' = FALSE
                 /\ Record(Outcome("disconnect", <<>>, RetNone, FALSE, "Disconnected",
                                   "none", <<"close">>, <<>>))
       ELSE /\ UNCHANGED <<hstate, stream>>
            /\ Record(Outcome("disconnect", <<>>, RetNone, FALSE, "", "none", <<>>, <<>>))
    /\ UNCHANGED <<socket, instrument, rm, returned>>

\* ------------------------------------------------------------ VISAConnection
\* connect(): pyvisa.ResourceManager() may raise (nothing is rebound);
\* rm.open_resource() may raise (self.rm is rebound, self.instrument keeps its
\* old value); otherwise self.instrument is the new session.
VisaConnectCall ==
    /\ \E managed \in BOOLEAN, opened \in BOOLEAN, now \in BOOLEAN :
         IF ~managed \/ ~opened
         THEN /\ rm' = IF managed THEN "open" ELSE rm
              /\ UNCHANGED <<instrument, hstate, stream>>
              /\ Record(Outcome("connect", <<>>, RetFalse, FALSE,
                                "Connection error", "ConnectError", <<>>, <<>>))
         ELSE /\ NewHandle \in Handles
              /\ rm' = "open"
              /\ instrument' = NewHandle
              /\ hstate' = Finalized([hstate EXCEPT ![NewHandle] = "connected"],
                                     instrument, now)
              /\ rxbuf' = <<>>
              /\ inflight' = <<>>
              /\ peerClosed' = FALSE
              /\ Record(Outcome("connect", <<>>, RetTrue, FALSE,
                                "Connected", "none", <<>>, <<>>))
    /\ UNCHANGED <<socket, returned>>

\* send_command(command): the command goes to instrument.write() as it is.
VisaSendCall(command) ==
    /\ \E wok \in BOOLEAN, reply \in Answers(command) :
         LET w == Sendall(instrument, hstate, wok)
         IN  /\ inflight' = Answered(w, reply, nops + 1)
             /\ hstate' = IF w = "ok" THEN hstate ELSE ExceptHandler(hstate, instrument)
             /\ Record(IF w = "ok"
                       THEN Outcome("send_command", command, RetNone, FALSE, "Sent",
                                    "none", WriteIO(w), Encode(VisaTerminated(command)))
                       ELSE Outcome("send_command", command, RetNone, FALSE,
                                    "Error sending command", w, WriteIO(w), <<>>))
    /\ UNCHANGED <<socket, instrument, rm, rxbuf, peerClosed, returned>>

\* instrument.read(): one whole message, through its line feed, or a timeout
\* when no whole message arrives in time.
FirstLF(buf) == CHOOSE i \in DOMAIN buf : buf[i].b = 10 /\ \A j \in 1..(i - 1) : buf[j].b # 10

VisaRead(s, hs, buf) ==
    IF s = None \/ hs[s] # "connected"
    THEN [res |-> "ReadError", data |-> <<>>, left |-> buf, closed |-> FALSE]
    ELSE IF \E i \in DOMAIN buf : buf[i].b = 10
    THEN [res |-> "data", data |-> SubSeq(buf, 1, FirstLF(buf)),
          left |-> SubSeq(buf, FirstLF(buf) + 1, Len(buf)), closed |-> FALSE]
    ELSE [res |-> "Timeout", data |-> <<>>, left |-> buf, closed |-> FALSE]

\* query(command): instrument.query(command) is a write and then a read.
VisaQueryCall(command) ==
    /\ \E wok \in BOOLEAN, reply \in Answers(command) :
         LET w == Sendall(instrument, hstate, wok)
             sent == Answered(w, reply, nops + 1)
             wtx == IF w = "ok" THEN Encode(VisaTerminated(command)) ELSE <<>>
         IN  IF ~ReadsAfter(w)
             THEN /\ inflight' = sent
                  /\ hstate' = ExceptHandler(hstate, instrument)
                  /\ UNCHANGED <<rxbuf, peerClosed, returned>>
                  /\ Record(Outcome("query", command, RetNone, FALSE, "Query error",
                                    w, WriteIO(w), wtx))
             ELSE \E k \in 0..Len(sent) :
                      AfterRead(command, WriteIO(w), wtx,
                                VisaRead(instrument, hstate, rxbuf \o SubSeq(sent, 1, k)),
                                SubSeq(sent, k + 1, Len(sent)))
    /\ UNCHANGED <<socket, instrument, rm>>

\* disconnect(): the instrument first, then the resource manager.
VisaDisconnectCall ==
    /\ IF Truthy(instrument)
       THEN IF instrument = None
            THEN /\ UNCHANGED <<hstate, stream, rm>>
                 /\ Record(Outcome("disconnect", <<>>, RetNone, TRUE, "",
                                   "AttributeError", <<>>, <<>>))
            ELSE /\ hstate' = Close(hstate, instrument)
                 /\ rxbuf' = <<>>
                 /\ inflight' = <<>>
                 /\ peerClosed' = FALSE
                 /\ rm' = IF rm # "None" THEN "closed" ELSE rm
                 /\ Record(Outcome("disconnect", <<>>, RetNone, FALSE, "Disconnected",
                                   "none", <<"close">>, <<>>))
       ELSE /\ UNCHANGED <<hstate, stream>>
            /\ rm' = IF rm # "None" THEN "closed" ELSE rm
            /\ Record(Outcome("disconnect", <<>>, RetNone, FALSE, "", "none", <<>>, <<>>))
    /\ UNCHANGED <<socket, instrument, returned>>

\* ------------------------------------------------ the classes under any caller
SocketConnect ==
    /\ variant = "socket" /\ pc = "api" /\ nops < MaxOps
    /\ SocketConnectCall
    /\ UNCHANGED caller

SocketSend ==
    /\ variant = "socket" /\ pc = "api" /\ nops < MaxOps
    /\ \E command \in Commands : SocketSendCall(command)
    /\ UNCHANGED caller

SocketQuery ==
    /\ variant = "socket" /\ pc = "api" /\ nops < MaxOps
    /\ \E command \in Commands : SocketQueryCall(command)
    /\ UNCHANGED caller

SocketDisconnect ==
    /\ variant = "socket" /\ pc = "api" /\ nops < MaxOps
    /\ SocketDisconnectCall
    /\ UNCHANGED caller

VisaConnect ==
    /\ variant = "visa" /\ pc = "api" /\ nops < MaxOps
    /\ VisaConnectCall
    /\ UNCHANGED caller

VisaSend ==
    /\ variant = "visa" /\ pc = "api" /\ nops < MaxOps
    /\ \E command \in Commands : VisaSendCall(command)
    /\ UNCHANGED caller

VisaQuery ==
    /\ variant = "visa" /\ pc = "api" /\ nops < MaxOps
    /\ \E command \in Commands : VisaQueryCall(command)
    /\ UNCHANGED caller

VisaDisconnect ==
    /\ variant = "visa" /\ pc = "api" /\ nops < MaxOps
    /\ VisaDisconnectCall
    /\ UNCHANGED caller

\* The runtime finalizes an object nothing refers to any more.
Finalize ==
    /\ \E h \in OpenHandles \ {Held} : hstate' = Close(hstate, h)
    /\ UNCHANGED <<socket, instrument, rm, stream, last, nops, returned, prev, wire>>
    /\ UNCHANGED caller

Next ==
    \/ SocketConnect
    \/ SocketSend
    \/ SocketQuery
    \/ SocketDisconnect
    \/ VisaConnect
    \/ VisaSend
    \/ VisaQuery
    \/ VisaDisconnect
    \/ Finalize

Spec == Init /\ [][Next]_vars

\* ------------------------------------------------------------ the programs
\* The three scripts: each main() connects, runs its body inside try, and
\* disconnects in finally.
Programs == {"scpi_command", "basic_configuration", "scpi_command_by_visa"}

\* The methods of the connection object main() created.
Connect == IF variant = "socket" THEN SocketConnectCall ELSE VisaConnectCall
SendCommand(command) ==
    IF variant = "socket" THEN SocketSendCall(command) ELSE VisaSendCall(command)
Query(command) ==
    IF variant = "socket" THEN SocketQueryCall(command) ELSE VisaQueryCall(command)
Disconnect == IF variant = "socket" THEN SocketDisconnectCall ELSE VisaDisconnectCall

\* command.lower()
Lower(s) ==
    [i \in DOMAIN s |->
        IF s[i] \notin {"LF", "CR"} /\ Ord(s[i]) \in Ord("A")..Ord("Z")
        THEN Chr(Ord(s[i]) - Ord("A") + Ord("a"))
        ELSE s[i]]

\* ['exit', 'quit']
ExitWords == {<<"e", "x", "i", "t">>, <<"q", "u", "i", "t">>}

\* command.endswith('?')
EndsWithQuestion(s) == s # <<>> /\ s[Len(s)] = "?"

\* Faulty variant: the line is taken as typed.
InputLineRaw(raw) == raw

\* command = input("SCPI> ").strip()
InputLine(raw) == Strip(raw)

\* What the user may type at the prompt: a blank line, the exit words in
\* either case, a command, a query followed by a space, and a command with its
\* question mark in front.
Lines ==
    {<<"SP">>, <<"e", "x", "i", "t">>, <<"Q", "u", "i", "t">>, <<"c">>,
     <<"c", "?", "SP">>, <<"?", "c">>}

\* The statements of basic_configuration, in program order.
Script ==
    <<[op |-> "send_command", command |-> <<"V", "O", "L", "T", ":", "M", "O", "D", "E", "SP", "A", "C">>],
      [op |-> "send_command", command |-> <<"V", "O", "L", "T", ":", "A", "C", "SP", "1", "0", "0">>],
      [op |-> "send_command", command |-> <<"F", "R", "E", "Q", "SP", "6", "0">>],
      [op |-> "send_command", command |-> <<"O", "U", "T", "P", "SP", "1", ";">>],
      [op |-> "query", command |-> <<":", "*", "O", "P", "C", "?">>],
      [op |-> "query", command |-> <<"M", "E", "A", "S", ":", "V", "O", "L", "T", "?">>],
      [op |-> "query", command |-> <<"M", "E", "A", "S", ":", "F", "R", "E", "Q", "?">>]>>

\* visa_conn.query("*IDN?")
Idn == <<"*", "I", "D", "N", "?">>

\* The first statement of the try block.
Body(p) ==
    CASE p = "scpi_command" -> "loop"
      [] p = "basic_configuration" -> "config"
      [] p = "scpi_command_by_visa" -> "idn"

\* Faulty variant: a try statement without its finally clause.
AfterTryNoFinally == "done"

\* finally: where control goes when the try block ends, returns or raises,
\* handled or not.
AfterTry == "finally"

MainInit ==
    /\ program \in Programs
    /\ variant = (IF program = "scpi_command_by_visa" THEN "visa" ELSE "socket")
    /\ pc = "connect"
    /\ Fresh

\* if not socket.connect(): ... sys.exit(1)
MainConnect ==
    /\ pc = "connect"
    /\ Connect
    /\ pc' = IF last'.ret = RetTrue THEN Body(program) ELSE "exit"
    /\ UNCHANGED <<variant, program, step, line>>

\* idn = visa_conn.query("*<<"*", "I", "D", "N", "?">>?"), then scpi_command(visa_conn)
MainIdn ==
    /\ pc = "idn"
    /\ Query(Idn)
    /\ pc' = "loop"
    /\ UNCHANGED <<variant, program, step, line>>

\* One turn of the while loop of scpi_command in which input() returns a line.
LoopInput ==
    /\ pc = "loop"
    /\ step < MaxLines
    /\ step' = step + 1
    /\ \E raw \in Lines :
         /\ line' = raw
         /\ IF Lower(InputLine(raw)) \in ExitWords
            THEN /\ pc' = AfterTry
                 /\ UNCHANGED <<socket, instrument, rm, hstate, stream, last, nops,
                                returned, prev, wire>>
            ELSE /\ pc' = "loop"
                 /\ IF InputLine(raw) = <<>>
                    THEN UNCHANGED <<socket, instrument, rm, hstate, stream, last, nops,
                                     returned, prev, wire>>
                    ELSE IF EndsWithQuestion(InputLine(raw))
                         THEN Query(InputLine(raw))
                         ELSE SendCommand(InputLine(raw))
    /\ UNCHANGED <<variant, program>>

\* except KeyboardInterrupt: print, break; scpi_command returns.
LoopInterrupt ==
    /\ pc = "loop"
    /\ pc' = AfterTry
    /\ UNCHANGED <<variant, program, step, line, socket, instrument, rm, hstate,
                   stream, last, nops, returned, prev, wire>>

\* input() raises an exception (the end of the input, for one): control is in
\* the loop's except Exception clause.
LoopError ==
    /\ pc = "loop"
    /\ step < MaxLines
    /\ step' = step + 1
    /\ pc' = "caught"
    /\ UNCHANGED <<variant, program, line, socket, instrument, rm, hstate,
                   stream, last, nops, returned, prev, wire>>

\* except Exception as e: print(...); the loop goes on.
LoopHandled ==
    /\ pc = "caught"
    /\ pc' = "loop"
    /\ UNCHANGED <<variant, program, step, line, socket, instrument, rm, hstate,
                   stream, last, nops, returned, prev, wire>>

\* The next statement of basic_configuration; after the last one it returns.
ConfigStep ==
    /\ pc = "config"
    /\ step < Len(Script)
    /\ step' = step + 1
    /\ IF Script[step + 1].op = "query"
       THEN Query(Script[step + 1].command)
       ELSE SendCommand(Script[step + 1].command)
    /\ pc' = IF step + 1 = Len(Script) THEN AfterTry ELSE "config"
    /\ UNCHANGED <<variant, program, line>>

\* A KeyboardInterrupt that reaches main: raised in the try block outside the
\* loop's own try (in the loop's handler, for the interactive scripts).
Interrupt ==
    /\ pc \in {"idn", "config", "caught"}
    /\ pc' = "interrupted"
    /\ UNCHANGED <<variant, program, step, line, socket, instrument, rm, hstate,
                   stream, last, nops, returned, prev, wire>>

\* An exception the methods and the loop do not catch (a print or sleep that
\* raises, in the body or in the loop's handler).
Unexpected ==
    /\ pc \in {"idn", "config", "caught"}
    /\ pc' = "failed"
    /\ UNCHANGED <<variant, program, step, line, socket, instrument, rm, hstate,
                   stream, last, nops, returned, prev, wire>>

\* except KeyboardInterrupt: / except Exception as e: of main.
MainExcept ==
    /\ pc \in {"interrupted", "failed"}
    /\ pc' = AfterTry
    /\ UNCHANGED <<variant, program, step, line, socket, instrument, rm, hstate,
                   stream, last, nops, returned, prev, wire>>

\* finally: socket.disconnect(); the program finishes.
MainFinally ==
    /\ pc = "finally"
    /\ Disconnect
    /\ pc' = "done"
    /\ UNCHANGED <<variant, program, step, line>>

MainNext ==
    \/ MainConnect
    \/ MainIdn
    \/ LoopInput
    \/ LoopInterrupt
    \/ LoopError
    \/ LoopHandled
    \/ ConfigStep
    \/ Interrupt
    \/ Unexpected
    \/ MainExcept
    \/ MainFinally

MainSpec == MainInit /\ [][MainNext]_vars

\* ------------------------------------------------------------------ claims
IsSend == last.op \in {"send_command", "query"}
LastCause == Cause(last.pre, last.err)
Failed == last.printed \in {"Error sending command", "Query error"}
WriteAttempts(io) == Cardinality({i \in DOMAIN io : io[i] \in {"write", "write_err"}})
ReadAttempts(io) == Cardinality({i \in DOMAIN io : io[i] \in {"read", "read_err"}})

IsLine(command) == \A i \in DOMAIN command : command[i] = "LF" => i = Len(command)

\* C2: for every command that is a line, with or without its trailing line
\* feed, the bytes send_command/query transmit end in a line feed and hold
\* exactly one line feed.
C2_ExactlyOneTerminator ==
    (IsSend /\ last.tx # <<>> /\ IsLine(last.command)) =>
        /\ last.tx[Len(last.tx)] = 10
        /\ Cardinality({i \in DOMAIN last.tx : last.tx[i] = 10}) = 1

\* C3 (as stated): every query on a Connected Channel makes exactly one
\* transport write and then exactly one transport read, also when the write or
\* the read fails.
C3_ExactlyOneWriteOneRead ==
    (last.op = "query" /\ last.pre = "Connected") =>
        /\ Len(last.io) = 2
        /\ last.io[1] \in {"write", "write_err"}
        /\ last.io[2] \in {"read", "read_err"}

\* C3 (amended): a query makes at most one transport write and at most one
\* transport read, never a second of either; it makes the write exactly when
\* the Channel holds a handle, and the read exactly when the write succeeded
\* (then write first, read second).
C3_AtMostOneWriteThenRead ==
    last.op = "query" =>
        /\ WriteAttempts(last.io) = (IF last.preHeld = None THEN 0 ELSE 1)
        /\ ReadAttempts(last.io) = (IF "write" \in {last.io[i] : i \in DOMAIN last.io}
                                     THEN 1 ELSE 0)
        /\ Len(last.io) = 2 => last.io[1] = "write"

\* C3 witness: a query on a Connected Channel whose write fails: no read follows.
C3_Witness ==
    /\ last.op = "query"
    /\ last.pre = "Connected"
    /\ last.io = <<"write_err">>

\* C4: no query returns bytes of a reply that an earlier query already
\* returned bytes of.
C4_NoSplitResponse == last.op = "query" => last.again = {}

C7_FailedConnectLeavesNoHandle ==
    last.op = "connect" =>
        /\ last.ret = RetTrue => ChanState = "Connected"
        /\ (last.ret = RetFalse /\ last.preHeld = None) => Held = None

\* C8: at most one transport handle opened by the Channel is live (connected
\* and not closed).
C8_AtMostOneLiveHandle == Cardinality({h \in Handles : hstate[h] = "connected"}) <= 1

\* C9: two failed queries of different causes, one of them a read timeout,
\* give the caller different results.
C9_TimeoutDistinguished ==
    (/\ last.op = "query" /\ prev.op = "query"
     /\ LastCause # "ok" /\ prev.cause # "ok"
     /\ LastCause # prev.cause
     /\ "ReadTimeout" \in {LastCause, prev.cause}) =>
        <<last.ret, last.raised>> # <<prev.ret, prev.raised>>

\* C10: a send_command that failed (not Connected, or the write failed) gives
\* its caller a result different from that of a send_command that succeeded,
\* after at most one write attempt.
C10_SendFailureReported ==
    (last.op = "send_command" /\ LastCause # "ok") =>
        /\ WriteAttempts(last.io) <= 1
        /\ (prev.op = "send_command" /\ prev.cause = "ok") =>
              <<last.ret, last.raised>> # <<prev.ret, prev.raised>>

\* C11: a send_command or query that fails with an I/O error (write failure,
\* read timeout, decode failure) on a Connected Channel leaves it Connected on
\* the same handle, neither closed nor replaced, and the next send_command or
\* query finds the Channel Connected and attempts its write.
C11_FailureLeavesConnected ==
    /\ (IsSend /\ last.pre = "Connected" /\ LastCause # "ok") =>
          /\ LastCause \in {"WriteFailed", "ReadTimeout", "DecodeFailed"}
          /\ Held = last.preHeld
          /\ hstate[Held] = "connected"
          /\ ChanState = "Connected"
    /\ (/\ IsSend
        /\ prev.op \in {"send_command", "query"}
        /\ prev.pre = "Connected"
        /\ prev.cause # "ok") =>
          /\ last.pre = "Connected"
          /\ WriteAttempts(last.io) = 1

\* C11 witness: on a Connected Channel a write fails, and the query that
\* follows is attempted and times out; the Channel is still Connected.
C11_Witness ==
    /\ last.op = "query"
    /\ last.pre = "Connected"
    /\ LastCause = "ReadTimeout"
    /\ prev.op = "send_command"
    /\ prev.pre = "Connected"
    /\ prev.cause = "WriteFailed"
    /\ ChanState = "Connected"

\* The text t with white space, and nothing else, added before and after it.
Padded(t, whole) ==
    \E i \in 0..Len(whole), j \in 0..Len(whole) :
        /\ i <= j
        /\ SubSeq(whole, i + 1, j) = t
        /\ \A k \in 1..i : IsSpace(whole[k])
        /\ \A k \in (j + 1)..Len(whole) : IsSpace(whole[k])

\* C13: when the bytes a query read decode as text, the query returns that
\* text without its terminator and without any leading or trailing white space,
\* and otherwise unchanged: what was read is the returned text with white space
\* only before and after it.
C13_ResponseStripped ==
    (last.op = "query" /\ "read" \in {last.io[i] : i \in DOMAIN last.io}
                       /\ Decodable(last.rx)) =>
        /\ last.ret.kind = "text"
        /\ last.ret.text = <<>> \/ (/\ ~IsSpace(last.ret.text[1])
                                    /\ ~IsSpace(last.ret.text[Len(last.ret.text)]))
        /\ Padded(last.ret.text, Decode(last.rx))

\* C13 witness: the instrument's " c\n" is returned as "c".
C13_Witness ==
    /\ last.op = "query"
    /\ last.rx = <<32, 99, 10>>
    /\ last.ret = RetText(<<"c">>)

\* C18: the text a query returns comes from the instrument's reply to that very
\* query, never from the reply to an earlier call.
C18_ReplyIsToThisQuery ==
    (last.op = "query" /\ last.ret.kind = "text") => last.from \subseteq {nops}

\* C19: a query returns text only when it received at least one byte; a read
\* of zero bytes, the peer having closed the connection, is a failure.
C19_TextOnlyFromBytes ==
    (last.op = "query" /\ last.ret.kind = "text") => last.rx # <<>>

\* C20 (as stated): once disconnect() has closed the Channel, no call, connect()
\* included, makes it Connected again or makes it open a new transport handle:
\* a call made on a Closed Channel leaves it Closed on the same handle.
C20_ClosedIsTerminal ==
    last.pre = "Closed" => (ChanState = "Closed" /\ Held = last.preHeld)

\* C20 (amended): only connect() takes a Channel out of Closed. Every other
\* step (send_command, query, disconnect, finalization) leaves a Closed Channel
\* Closed on the same handle and opens no transport handle.
C20_ClosedUntilConnect ==
    [][(ChanState = "Closed" /\ ~(nops' = nops + 1 /\ last'.op = "connect")) =>
          (ChanState' = "Closed" /\ Held' = Held /\ Born' = Born)]_vars

\* C20 witness: a query made on a Channel that disconnect() has just closed;
\* the Channel is still Closed after it.
C20_Witness ==
    /\ last.op = "query"
    /\ prev.op = "disconnect"
    /\ last.pre = "Closed"
    /\ last.io = <<"write_err">>
    /\ ChanState = "Closed"

\* The transport calls logged for method call number n, in order.
CallsOf(n) == SelectSeq(wire, LAMBDA e : e.call = n)
IsPrefix(a, b) == Len(a) <= Len(b) /\ SubSeq(b, 1, Len(a)) = a

C15_SameWireBytes ==
    (IsSend /\ last.tx # <<>>) =>
        /\ last.tx = Encode(Terminated(last.command))
        /\ last.tx = Encode(VisaTerminated(last.command))

\* The last character of a line that is not white space is a question mark.
IsQueryLine(raw) ==
    \E i \in DOMAIN raw : raw[i] = "?" /\ \A j \in (i + 1)..Len(raw) : IsSpace(raw[j])

\* A line that is a command: not empty, not blank, not one of the exit words.
IsCommandLine(raw) ==
    /\ \E i \in DOMAIN raw : ~IsSpace(raw[i])
    /\ Lower(Strip(raw)) \notin ExitWords

\* A turn of the interactive loop in which the user entered a line.
LineEntered == pc = "loop" /\ step' = step + 1 /\ pc' # "caught"

\* C14 (as stated): in the interactive loop a command line whose last
\* character that is not white space is '?' causes one write followed by one
\* read, and every other command line causes one write and no read.
C14_QueryIffQuestionMark ==
    [][(LineEntered /\ IsCommandLine(line')) =>
          /\ nops' = nops + 1
          /\ wire' = wire \o [i \in DOMAIN last'.io |-> [ev |-> last'.io[i], call |-> nops']]
          /\ WriteAttempts(last'.io) = 1
          /\ last'.io[1] \in {"write", "write_err"}
          /\ ReadAttempts(last'.io) = (IF IsQueryLine(line') THEN 1 ELSE 0)]_vars

\* C14 (amended): a command line is handed to query exactly when its last
\* character that is not white space is '?', and to send_command otherwise;
\* either makes one write; a read follows exactly when the line is a query
\* and its write succeeded. A line that is no command causes no transport call.
C14_QueryIffQuestionMarkWriteOk ==
    [][/\ (LineEntered /\ IsCommandLine(line')) =>
             /\ nops' = nops + 1
             /\ wire' = wire \o [i \in DOMAIN last'.io |-> [ev |-> last'.io[i], call |-> nops']]
             /\ last'.command = Strip(line')
             /\ last'.op = (IF IsQueryLine(line') THEN "query" ELSE "send_command")
             /\ WriteAttempts(last'.io) = 1
             /\ last'.io[1] \in {"write", "write_err"}
             /\ ReadAttempts(last'.io) =
                    (IF IsQueryLine(line') /\ last'.io[1] = "write" THEN 1 ELSE 0)
       /\ (LineEntered /\ ~IsCommandLine(line')) => (nops' = nops /\ wire' = wire)]_vars

\* C14 witness: the line "c? " was entered: query("c?") wrote and then read.
C14_Witness ==
    /\ pc = "loop"
    /\ line = <<"c", "?", "SP">>
    /\ last.op = "query"
    /\ last.command = <<"c", "?">>
    /\ last.io = <<"write", "read">>

\* The number of times the transport handle was closed by disconnect().
Closes == Cardinality({i \in DOMAIN wire : wire[i].ev = "close"})

\* C16: a program finishes either at sys.exit(1), connect() having failed, or
\* past the finally clause; in the latter case, however the try block ended
\* (end of the session, KeyboardInterrupt, unexpected exception), disconnect()
\* was called exactly once, it was the last call made on the connection, no
\* send_command or query followed it, and the Channel is Closed.
C16_DisconnectOnceOnExit ==
    /\ pc = "exit" => (last.op = "connect" /\ last.ret = RetFalse /\ Closes = 0)
    /\ pc = "done" =>
          /\ last.op = "disconnect"
          /\ Closes = 1
          /\ wire[Len(wire)] = [ev |-> "close", call |-> nops]
          /\ ChanState = "Closed"
    /\ pc \notin {"connect", "exit", "done"} => (Closes = 0 /\ ChanState = "Connected")

\* C16 witness: basic_configuration interrupted by the user after its second
\* statement; the program finished with the Channel disconnected.
C16_Witness ==
    /\ program = "basic_configuration"
    /\ pc = "done"
    /\ step = 2
    /\ prev.op = "send_command"
    /\ last.op = "disconnect"
    /\ ChanState = "Closed"

\* The transport calls of method call n, a failed one counted as made.
Attempts(n) ==
    [i \in DOMAIN CallsOf(n) |->
        CASE CallsOf(n)[i].ev = "write_err" -> "write"
          [] CallsOf(n)[i].ev = "read_err" -> "read"
          [] OTHER -> CallsOf(n)[i].ev]

\* C17: basic_configuration issues its statements in program order, and a
\* statement is issued only after the transport calls of the one before it were
\* made: one write and no read for each of the four commands, one write and
\* then one read for each of the three queries (so OUTP 1; comes after the
\* three configuration writes, and MEAS:VOLT? after the read for :*OPC?).
C17_FixedOrder ==
    (program = "basic_configuration" /\ pc \notin {"connect", "exit"}) =>
        /\ nops >= step + 1
        /\ \A n \in 1..(step - 1) :
              Attempts(n + 1) = (IF Script[n].op = "query"
                                 THEN <<"write", "read">> ELSE <<"write">>)
====
